---- MODULE Spec2Model ----
(***************************************************************************)
(* Model of the Telegram relay bot of OllamaAssist (tgbot):                *)
(*   - conversation.Manager   the session store (map + sync.RWMutex)       *)
(*   - api.Client             the backend HTTP client                      *)
(*   - handlers.Handler       the command / message handlers               *)
(*   - main                   the sequential update loop                   *)
(*                                                                         *)
(* Seven specifications share the variables:                               *)
(*   Spec       the update loop of main, one update per step               *)
(*   SpecStore  a single caller invoking the Manager's methods in sequence *)
(*   SpecAlias  SpecStore with a caller that keeps and assigns through the *)
(*              pointers the Manager hands out and takes in                *)
(*   SpecClient a single caller invoking the Client's methods in sequence  *)
(*   SpecTasks  the handlers of several updates running concurrently, one  *)
(*              task per update, every store call a step                   *)
(*   SpecConc   several goroutines invoking the Manager's methods, every   *)
(*              lock, map access and unlock a step of its own              *)
(*   SpecConcFair  SpecConc with a fair scheduler and a fair lock          *)
(***************************************************************************)
EXTENDS Integers, Sequences, FiniteSets, TLC

(***************************************************************************)
(* Bounds of the model.                                                    *)
(***************************************************************************)
NumUsers == 2
MaxArgLen == 2
MaxConvs == 2
NumProcs == 2

Users == 1..NumUsers
Procs == 1..NumProcs

(***************************************************************************)
(* Values.                                                                 *)
(***************************************************************************)
\* The nil pointer (GetSession "returns nil if no session exists").
Nil == 0
\* Heap addresses of *UserSession values; enough for every live pointer.
Addr == 1..(NumUsers + NumProcs + 2)

\* Characters of a command's argument text.
ArgChars == {" ", "x"}
\* Conversation identities and output texts the backend may put in a body.
BackendIDs == {"x", "c1"}
Outputs == {"hi"}
\* Marker for a JSON key that is missing from an object.
Absent == "<absent>"
\* The freeform texts users send.
Texts == {"hello"}
\* Command tokens: the three the loop knows and one it does not.
Commands == {"start", "list", "servers", "help"}

StatusOK == 200
Statuses == {StatusOK, 201, 500}

NoErr == "<nil>"

RECURSIVE SeqsUpTo(_, _)
SeqsUpTo(S, n) ==
    IF n = 0 THEN {<<>>}
    ELSE LET shorter == SeqsUpTo(S, n - 1)
         IN shorter \cup {Append(q, c) : q \in {r \in shorter : Len(r) = n - 1}, c \in S}

Range(f) == {f[k] : k \in DOMAIN f}
Restrict(f, K) == [k \in (DOMAIN f) \cap K |-> f[k]]

(***************************************************************************)
(* strings.Fields: the maximal runs of non-space characters, in order.     *)
(* An argument text is a sequence of one-character strings.                *)
(***************************************************************************)
RECURSIVE FieldsFrom(_, _, _, _)
FieldsFrom(chars, i, cur, acc) ==
    IF i > Len(chars)
    THEN IF cur = "" THEN acc ELSE Append(acc, cur)
    ELSE IF chars[i] = " "
         THEN FieldsFrom(chars, i + 1, "", IF cur = "" THEN acc ELSE Append(acc, cur))
         ELSE FieldsFrom(chars, i + 1, cur \o chars[i], acc)

Fields(chars) == FieldsFrom(chars, 1, "", <<>>)

(***************************************************************************)
(* strconv.FormatInt(id, 10) for the non-negative identities of the model. *)
(***************************************************************************)
Digit(d) == <<"0", "1", "2", "3", "4", "5", "6", "7", "8", "9">>[d + 1]

RECURSIVE FormatInt(_)
FormatInt(n) == IF n < 10 THEN Digit(n) ELSE FormatInt(n \div 10) \o Digit(n % 10)

(***************************************************************************)
(* conversation.UserSession and conversation.Manager.                      *)
(* sessions is the map (a function on the keys present), heap holds the    *)
(* UserSession values the map's pointers refer to.                         *)
(***************************************************************************)
UserSession(userID, conversationID) ==
    [UserID |-> userID, ConversationID |-> conversationID]

\* The address handed out by the next allocation.
Alloc(h) == CHOOSE a \in Addr \ DOMAIN h : \A b \in Addr \ DOMAIN h : a <= b

\* Variant: an entry that exists is kept (insert only, no overwrite).
MapStore_KeepExisting(s, key, ptr) ==
    [k \in (DOMAIN s) \cup {key} |-> IF k \in DOMAIN s THEN s[k] ELSE ptr]

\* m.sessions[key] = ptr
MapStore(s, key, ptr) == [k \in (DOMAIN s) \cup {key} |-> IF k = key THEN ptr ELSE s[k]]

\* Variant: nothing is deleted.
MapDelete_Nothing(s, key) == s

\* delete(m.sessions, key)
MapDelete(s, key) == [k \in (DOMAIN s) \ {key} |-> s[k]]

\* m.sessions[key]: the zero value, nil, for a missing key
MapLoad(s, key) == IF key \in DOMAIN s THEN s[key] ELSE Nil

\* &UserSession{ConversationID: conversationID}: UserID keeps its zero value.
NewSession(conversationID) == UserSession("", conversationID)

\* Variant: the session is stored under one key whoever the user is.
StartConversation_Anyone(s, h, telegramUserID, conversationID) ==
    LET a == Alloc(h)
    IN [sessions |-> MapStore(s, 1, a),
        heap |-> h @@ (a :> NewSession(conversationID))]

\* Variant: a session that exists is modified in place (merge).
StartConversation_Merge(s, h, telegramUserID, conversationID) ==
    IF MapLoad(s, telegramUserID) # Nil
    THEN [sessions |-> s,
          heap |-> [h EXCEPT ![s[telegramUserID]].ConversationID = conversationID]]
    ELSE [sessions |-> MapStore(s, telegramUserID, Alloc(h)),
          heap |-> h @@ (Alloc(h) :> NewSession(conversationID))]

StartConversation(s, h, telegramUserID, conversationID) ==
    LET a == Alloc(h)
    IN [sessions |-> MapStore(s, telegramUserID, a),
        heap |-> h @@ (a :> NewSession(conversationID))]

GetSession(s, telegramUserID) == MapLoad(s, telegramUserID)

ClearSession(s, telegramUserID) == MapDelete(s, telegramUserID)

UpdateSession(s, telegramUserID, session) == MapStore(s, telegramUserID, session)

\* What a pointer refers to; the heap cells no pointer reaches are collected.
AbsentSession == [absent |-> TRUE]
Deref(h, p) == IF p = Nil THEN AbsentSession ELSE h[p]
Collect(h, roots) == Restrict(h, roots \ {Nil})

\* The collector: the cells reached from the map and from the one pointer
\* held outside it, moved to the addresses 1, 2, ... (the map's cells in the
\* order of the users that refer to them, then the held one).
RECURSIVE MapCells(_, _, _)
MapCells(s, u, cells) ==
    IF u > NumUsers THEN cells
    ELSE MapCells(s, u + 1,
                  IF u \in DOMAIN s /\ s[u] # Nil /\ s[u] \notin Range(cells)
                  THEN Append(cells, s[u]) ELSE cells)

LiveCells(s, held) ==
    IF held = Nil \/ held \in Range(MapCells(s, 1, <<>>))
    THEN MapCells(s, 1, <<>>)
    ELSE Append(MapCells(s, 1, <<>>), held)

Moved(cells, p) == IF p = Nil THEN Nil ELSE CHOOSE i \in DOMAIN cells : cells[i] = p

Relocate(s, h, held, cells) ==
    [sessions |-> [u \in DOMAIN s |-> Moved(cells, s[u])],
     heap |-> [i \in DOMAIN cells |-> h[cells[i]]],
     held |-> Moved(cells, held)]

Compact(s, h, held) == Relocate(s, h, held, LiveCells(s, held))

\* The store by value: the session, if any, behind every key of the map.
Snapshot(s, h) == [u \in DOMAIN s |-> Deref(h, s[u])]

\* What GetSession yields for every user, by value.
View(s, h) == [u \in Users |-> Deref(h, GetSession(s, u))]

(***************************************************************************)
(* api.Client.  An HTTP exchange is decided by the network and the         *)
(* backend: nt.transport says whether a response arrived at all, nt.status *)
(* and nt.body are the response.  A body is either not decodable into the  *)
(* expected shape (wellFormed = FALSE) or a JSON object, a function from   *)
(* the keys it holds to their values.                                      *)
(***************************************************************************)
TransportFail == [transport |-> "fail"]
NoNet == [transport |-> "none"]
Garbage == [wellFormed |-> FALSE, json |-> <<>>]

\* Every body may come with status 200; the other statuses come with the
\* one body errorBody, which would decode if it were looked at.
HTTPOutcomes(bodies, errorBody) ==
    {TransportFail}
    \cup {[transport |-> "ok", status |-> StatusOK, body |-> b] : b \in bodies}
    \cup {[transport |-> "ok", status |-> st, body |-> errorBody] : st \in Statuses \ {StatusOK}}

\* A JSON object from optional members: a member that is Absent is left out.
JSONObject(members) ==
    [k \in {m \in DOMAIN members : members[m] # Absent} |-> members[k]]

\* json.Decoder.Decode into a string field: a missing key leaves the zero value.
StringField(obj, key) == IF key \in DOMAIN obj THEN obj[key] ELSE ""

ChatBody(o, c) == [wellFormed |-> TRUE, json |-> JSONObject([output |-> o, conversation_id |-> c])]
ChatBodies ==
    {Garbage} \cup {ChatBody(o, c) : o \in Outputs \cup {Absent}, c \in BackendIDs \cup {"", Absent}}
ChatOutcomes == HTTPOutcomes(ChatBodies, ChatBody("hi", "x"))

\* Conversation summaries, with time.Time as date, clock and fraction.
Times == {[date |-> "2024-05-01", clock |-> "10:00:00", frac |-> ""],
          [date |-> "2023-12-31", clock |-> "23:59:59", frac |-> ".5"]}
Conversations ==
    {[id |-> IF t.frac = "" THEN "c1" ELSE "c2", title |-> "First", created_at |-> t] : t \in Times}

\* config.DefaultConversationLimit, and a listing of the backend with one
\* conversation more than that.
DefaultConversationLimit == 10
LongListing ==
    [i \in 1..(DefaultConversationLimit + 1) |->
        [id |-> IF i % 2 = 1 THEN "c1" ELSE "c2", title |-> "Long",
         created_at |-> [date |-> "2024-05-01", clock |-> "10:00:00", frac |-> ""]]]

\* The bodies of GET /conversations: not decodable, an object without the
\* key, and objects with a list.
\* A JSON value in the place of a list: null or an array.
JSONNull == [null |-> TRUE, items |-> <<>>]
JSONArray(items) == [null |-> FALSE, items |-> items]

ConversationsBodies ==
    {Garbage, [wellFormed |-> TRUE, json |-> <<>>],
     [wellFormed |-> TRUE, json |-> [conversations |-> JSONNull]]} \cup
    {[wellFormed |-> TRUE, json |-> [conversations |-> JSONArray(cs)]] :
        cs \in SeqsUpTo(Conversations, MaxConvs) \cup {LongListing}}
ConversationsOutcomes ==
    HTTPOutcomes(ConversationsBodies, [wellFormed |-> TRUE, json |-> [conversations |-> JSONArray(<<>>)]])

ToolOrder == <<"fs", "web">>
ToolsBodies ==
    {Garbage} \cup
    {[wellFormed |-> TRUE, json |-> [k \in K |-> "on"]] : K \in SUBSET Range(ToolOrder)}
ToolsOutcomes == HTTPOutcomes(ToolsBodies, [wellFormed |-> TRUE, json |-> <<>>])

\* json.Marshal(ChatRequest): every member but input is omitempty.
MarshalChatRequest(req) ==
    JSONObject([conversation_id |-> IF req.ConversationID = "" THEN Absent ELSE req.ConversationID,
                title |-> IF req.Title = "" THEN Absent ELSE req.Title,
                input |-> req.Input,
                user_id |-> IF req.UserID = "" THEN Absent ELSE req.UserID])

ChatRequest(input, conversationID, userID, title) ==
    [UserID |-> userID, ConversationID |-> conversationID, Title |-> title, Input |-> input]

\* The nil *ChatResponse / nil slice / nil map returned with an error.
NilResult == [nil |-> TRUE]

\* Variant: the status is not looked at.
StatusRejected_Never(status) == FALSE

\* if resp.StatusCode != http.StatusOK
StatusRejected(status) == status # StatusOK

\* Variant: the error of Decode is dropped.
DecodeFailed_Never(body) == FALSE

\* if err := json.NewDecoder(resp.Body).Decode(&v); err != nil
DecodeFailed(body) == ~body.wellFormed

\* The HTTP exchange of the three calls: the error it ends in, if any, and
\* the JSON value decoded from the body otherwise.
Exchange(nt) ==
    IF nt.transport # "ok"
    THEN [json |-> <<>>, err |-> "error sending request"]
    ELSE IF StatusRejected(nt.status)
    THEN [json |-> <<>>, err |-> "unexpected status code"]
    ELSE IF DecodeFailed(nt.body)
    THEN [json |-> <<>>, err |-> "error decoding response"]
    ELSE [json |-> nt.body.json, err |-> NoErr]

\* Variant: the value being decoded is returned along with the error.
Return_WithResult(e, result, wire) == [err |-> e.err, result |-> result, wire |-> wire]

\* return nil, err  /  return result, nil
Return(e, result, wire) ==
    [err |-> e.err, result |-> IF e.err = NoErr THEN result ELSE NilResult, wire |-> wire]

DecodeChatResponse(obj) ==
    [ConversationID |-> StringField(obj, "conversation_id"),
     Output |-> StringField(obj, "output")]

\* Variant: a failed attempt is followed by a second one.
SendMessage_Retry(req, nt) ==
    LET wire == <<[body |-> MarshalChatRequest(req), method |-> "POST", path |-> "/chat"]>>
    IN Return(Exchange(nt), DecodeChatResponse(Exchange(nt).json),
              IF Exchange(nt).err = NoErr THEN wire ELSE wire \o wire)

SendMessage(req, nt) ==
    Return(Exchange(nt), DecodeChatResponse(Exchange(nt).json),
           <<[body |-> MarshalChatRequest(req), method |-> "POST", path |-> "/chat"]>>)

\* A missing "conversations" key and a null leave the nil slice, of length 0.
DecodeConversations(obj) ==
    IF "conversations" \in DOMAIN obj /\ ~obj["conversations"].null
    THEN obj["conversations"].items
    ELSE <<>>

GetConversations(nt) ==
    Return(Exchange(nt), DecodeConversations(Exchange(nt).json),
           <<[body |-> <<>>, method |-> "GET", path |-> "/conversations"]>>)

DecodeTools(obj) == obj

GetTools(nt) ==
    Return(Exchange(nt), DecodeTools(Exchange(nt).json),
           <<[body |-> <<>>, method |-> "GET", path |-> "/tools"]>>)

(***************************************************************************)
(* handlers.Handler.  A handler takes the store (s, h), the message m and  *)
(* the outcome nt of the HTTP exchange it may start, and yields the store  *)
(* it leaves, the reply it returns and the HTTP requests it issued.        *)
(***************************************************************************)
\* tgbotapi.NewMessage(chatID, text)
NewMessage(chatID, text) == [ChatID |-> chatID, Text |-> text, ReplyToMessageID |-> 0]

Handled(s, h, reply, wire) == [sessions |-> s, heap |-> h, msg |-> reply, sent |-> wire]

\* Variant: the argument is not put into the session.
LoadedSession_Blank(arg) == UserSession("", "")

\* The session HandleStart builds for "/start <id>".
LoadedSession(arg) == UserSession("", arg)

\* The request HandleStart sends for a bare "/start".
StartRequest(m) == ChatRequest("/start", "", FormatInt(m.From), "New Conversation")

HandleStart(s, h, m, nt) ==
    LET args == Fields(m.Arguments)
    IN IF Len(args) > 0
       THEN LET session == Alloc(h)
                h1 == h @@ (session :> LoadedSession(args[1]))
            IN Handled(UpdateSession(s, m.From, session), h1,
                       NewMessage(m.Chat, "Loaded conversation: " \o args[1]), <<>>)
       ELSE LET r == SendMessage(StartRequest(m), nt)
            IN IF r.err # NoErr
               THEN Handled(s, h, NewMessage(m.Chat, "Error starting new conversation"), r.wire)
               ELSE LET st == StartConversation(s, h, m.From, r.result.ConversationID)
                    IN Handled(st.sessions, st.heap, NewMessage(m.Chat, r.result.Output), r.wire)

\* CreatedAt.Format("2006-01-02 15:04:05"): the fraction is not printed.
FormatTime(t) == t.date \o " " \o t.clock

\* Variant: the listing stops at config.DefaultConversationLimit entries.
RECURSIVE ListBody_Limited(_, _)
ListBody_Limited(conversations, i) ==
    IF i > Len(conversations) \/ i > DefaultConversationLimit THEN ""
    ELSE "ID: " \o conversations[i].id \o "\nTitle: " \o conversations[i].title
         \o "\nCreated: " \o FormatTime(conversations[i].created_at) \o "\n\n"
         \o ListBody_Limited(conversations, i + 1)

RECURSIVE ListBody(_, _)
ListBody(conversations, i) ==
    IF i > Len(conversations) THEN ""
    ELSE "ID: " \o conversations[i].id \o "\nTitle: " \o conversations[i].title
         \o "\nCreated: " \o FormatTime(conversations[i].created_at) \o "\n\n"
         \o ListBody(conversations, i + 1)

\* Variant: no case for the empty list.
HandleList_NoEmptyCase(s, h, m, nt) ==
    LET r == GetConversations(nt)
    IN IF r.err # NoErr
       THEN Handled(s, h, NewMessage(m.Chat, "Error retrieving conversations"), r.wire)
       ELSE Handled(s, h, NewMessage(m.Chat, "Recent conversations:\n\n" \o ListBody(r.result, 1)),
                    r.wire)

HandleList(s, h, m, nt) ==
    LET r == GetConversations(nt)
    IN IF r.err # NoErr
       THEN Handled(s, h, NewMessage(m.Chat, "Error retrieving conversations"), r.wire)
       ELSE IF Len(r.result) = 0
       THEN Handled(s, h, NewMessage(m.Chat, "No conversations found"), r.wire)
       ELSE Handled(s, h, NewMessage(m.Chat, "Recent conversations:\n\n" \o ListBody(r.result, 1)),
                    r.wire)

\* Variant: the handler works on the store as it was at start-up.
SessionConversationID_Stale(h, session) == ""

\* Variant: a user without a session is announced to the backend as new.
SessionConversationID_NilMarked(h, session) ==
    IF session # Nil THEN h[session].ConversationID ELSE "new"

\* The conversation identity HandleMessage puts in its request.
SessionConversationID(h, session) == IF session # Nil THEN h[session].ConversationID ELSE ""

\* Variants: the session is installed after every exchange / after none.
StartsSession_Always(conversationID) == TRUE
StartsSession_Never(conversationID) == FALSE

\* if conversationID == "" : whether HandleMessage installs a session.
StartsSession(conversationID) == conversationID = ""

HandleMessage(s, h, m, nt) ==
    LET session == GetSession(s, m.From)
        conversationID == SessionConversationID(h, session)
        r == SendMessage(ChatRequest(m.Text, conversationID, FormatInt(m.From), ""), nt)
    IN IF r.err # NoErr
       THEN Handled(s, h, NewMessage(m.Chat, "Error processing message"), r.wire)
       ELSE IF StartsSession(conversationID)
       THEN LET st == StartConversation(s, h, m.From, r.result.ConversationID)
            IN Handled(st.sessions, st.heap, NewMessage(m.Chat, r.result.Output), r.wire)
       ELSE Handled(s, h, NewMessage(m.Chat, r.result.Output), r.wire)

\* fmt.Sprintf("%+v", tools): the entries in key order, separated by spaces.
RECURSIVE ToolsText(_, _, _)
ToolsText(tools, i, sep) ==
    IF i > Len(ToolOrder) THEN ""
    ELSE IF ToolOrder[i] \in DOMAIN tools
    THEN sep \o ToolOrder[i] \o ":" \o tools[ToolOrder[i]] \o ToolsText(tools, i + 1, " ")
    ELSE ToolsText(tools, i + 1, sep)

\* Variant: a failed call drops the session of the sender.
HandleServers_Clearing(s, h, m, nt) ==
    LET r == GetTools(nt)
    IN IF r.err # NoErr
       THEN Handled(ClearSession(s, m.From), h,
                    NewMessage(m.Chat, "Error retrieving server information"), r.wire)
       ELSE Handled(s, h, NewMessage(m.Chat, "Available tools: map[" \o ToolsText(r.result, 1, "") \o "]"),
                    r.wire)

HandleServers(s, h, m, nt) ==
    LET r == GetTools(nt)
    IN IF r.err # NoErr
       THEN Handled(s, h, NewMessage(m.Chat, "Error retrieving server information"), r.wire)
       ELSE Handled(s, h, NewMessage(m.Chat, "Available tools: map[" \o ToolsText(r.result, 1, "") \o "]"),
                    r.wire)

(***************************************************************************)
(* State.                                                                  *)
(***************************************************************************)
VARIABLES
    sessions,   \* Manager.sessions: user id -> pointer
    heap,       \* the UserSession values behind the pointers
    running,    \* main: the process has not been shut down
    loop,       \* main: where the update loop stands
    update,     \* main: the update taken from the channel in this iteration
    net,        \* the outcome of the HTTP exchange of this iteration, if any
    sent,       \* the HTTP requests issued in this iteration
    outbox,     \* the replies handed to bot.Send in this iteration
    logged,     \* the lines main logged in this iteration
    pre,        \* the store as it was when this iteration began
    calls,      \* SpecStore, SpecClient: the last calls of the single caller
    pc,         \* SpecConc, SpecTasks: where each goroutine stands
    op,         \* SpecConc: the call each goroutine is making; SpecTasks: its message
    ret,        \* SpecConc: what its last GetSession returned; SpecTasks: what it has in hand
    mu,         \* SpecConc: Manager.mu
    writing     \* SpecConc: the goroutines in the middle of a map write

loopVars == <<running, loop, update, net, sent, outbox, logged, pre>>
concVars == <<pc, op, ret, mu, writing>>
vars == <<sessions, heap, running, loop, update, net, sent, outbox, logged, pre,
          calls, pc, op, ret, mu, writing>>

(***************************************************************************)
(* main: the updates the channel can deliver.  A chat with the bot is the  *)
(* private chat of its sender, so Chat.ID is From.ID.  Only "start" reads  *)
(* its arguments, so only "start" comes with any.                          *)
(***************************************************************************)
MessageIDs == {11}

NoMessage ==
    [Text |-> "", From |-> Nil, Arguments |-> <<>>, Chat |-> Nil,
     hasMessage |-> FALSE, MessageID |-> Nil, IsCommand |-> FALSE, Command |-> ""]

CommandUpdate(u, id, c, a) ==
    [Text |-> "", From |-> u, Arguments |-> a, Chat |-> u,
     hasMessage |-> TRUE, MessageID |-> id, IsCommand |-> TRUE, Command |-> c]

CommandUpdates ==
    {CommandUpdate(u, id, "start", a) : u \in Users, id \in MessageIDs, a \in SeqsUpTo(ArgChars, MaxArgLen)}
    \cup {CommandUpdate(u, id, c, <<>>) : u \in Users, id \in MessageIDs, c \in Commands \ {"start"}}

TextUpdates ==
    {[Text |-> t, From |-> u, Arguments |-> <<>>, Chat |-> u,
      hasMessage |-> TRUE, MessageID |-> id, IsCommand |-> FALSE, Command |-> ""] :
        u \in Users, id \in MessageIDs, t \in Texts}

Updates == {NoMessage} \cup CommandUpdates \cup TextUpdates

\* Variant: no default case, the command is handled as a regular message
\* (here with the backend unreachable).
HandleUnknown_AsMessage(s, h, m) == HandleMessage(s, h, m, TransportFail)

\* default: of the switch on update.Message.Command()
HandleUnknown(s, h, m) == Handled(s, h, NewMessage(m.Chat, "Unknown command"), <<>>)

\* for update := range updates: the loop takes the next update; the
\* variables of the loop body start afresh.
Receive ==
    /\ running
    /\ loop \in {"wait", "sent"}
    /\ \E upd \in Updates : update' = upd
    /\ loop' = "body"
    /\ net' = NoNet
    /\ sent' = <<>>
    /\ outbox' = <<>>
    /\ logged' = <<>>
    /\ pre' = [sessions |-> sessions, heap |-> heap]
    /\ UNCHANGED <<sessions, heap, running, calls, concVars>>

\* if update.Message == nil { continue }
SkipUpdate ==
    /\ running
    /\ loop = "body"
    /\ ~update.hasMessage
    /\ loop' = "wait"
    /\ UNCHANGED <<sessions, heap, running, update, net, sent, outbox, logged, pre, calls, concVars>>

\* Variant: a reply with an empty text is not handed to the transport.
BotSend_UnlessEmpty(msg) == IF msg.Text = "" THEN <<>> ELSE <<msg>>

\* bot.Send(msg): what is handed to the transport.
BotSend(msg) == <<msg>>

\* Variant: log.Fatalf in the place of log.Printf.
AfterSend_Fatal(run, delivered) == run /\ delivered

\* if _, err := bot.Send(msg); err != nil { log.Printf(...) }: whether the
\* process goes on.
AfterSend(run, delivered) == run

\* The rest of the loop body, once the handler returned r: the reply is
\* threaded to the message and handed to bot.Send, whose failure is logged.
Finish(nt, r, delivered) ==
    /\ \E map \in {r.sessions}, cells \in {r.heap} :
        \E k \in {Compact(map, cells, Nil)} : sessions' = k.sessions /\ heap' = k.heap
    /\ net' = IF Len(r.sent) = 0 THEN NoNet ELSE nt
    /\ sent' = r.sent
    /\ outbox' = BotSend([r.msg EXCEPT !.ReplyToMessageID = update.MessageID])
    /\ logged' = IF delivered THEN <<>> ELSE <<"Error sending message">>
    /\ loop' = "sent"
    /\ running' = AfterSend(running, delivered)
    /\ UNCHANGED <<update, pre, calls, concVars>>

InBody == running /\ loop = "body" /\ update.hasMessage

StartCommand ==
    /\ InBody
    /\ update.IsCommand
    /\ update.Command = "start"
    /\ \E nt \in ChatOutcomes, delivered \in BOOLEAN :
        \E r \in {HandleStart(sessions, heap, update, nt)} : Finish(nt, r, delivered)

ListCommand ==
    /\ InBody
    /\ update.IsCommand
    /\ update.Command = "list"
    /\ \E nt \in ConversationsOutcomes, delivered \in BOOLEAN :
        \E r \in {HandleList(sessions, heap, update, nt)} : Finish(nt, r, delivered)

ServersCommand ==
    /\ InBody
    /\ update.IsCommand
    /\ update.Command = "servers"
    /\ \E nt \in ToolsOutcomes, delivered \in BOOLEAN :
        \E r \in {HandleServers(sessions, heap, update, nt)} : Finish(nt, r, delivered)

UnknownCommand ==
    /\ InBody
    /\ update.IsCommand
    /\ update.Command \notin {"start", "list", "servers"}
    /\ \E delivered \in BOOLEAN :
        \E r \in {HandleUnknown(sessions, heap, update)} : Finish(NoNet, r, delivered)

TextMessage ==
    /\ InBody
    /\ ~update.IsCommand
    /\ \E nt \in ChatOutcomes, delivered \in BOOLEAN :
        \E r \in {HandleMessage(sessions, heap, update, nt)} : Finish(nt, r, delivered)

\* SIGINT / SIGTERM: the signal goroutine of main stops the updates and exits.
Shutdown ==
    /\ running
    /\ running' = FALSE
    /\ UNCHANGED <<sessions, heap, loop, update, net, sent, outbox, logged, pre, calls, concVars>>

\* conversation.NewManager(): an empty map and an unlocked mutex.
NewManager ==
    /\ sessions = <<>>
    /\ heap = <<>>
    /\ mu = [w |-> Nil, readers |-> {}]
    /\ writing = {}

\* A goroutine that is in no call, and has no result in hand.
NoCall == [session |-> AbsentSession, name |-> "none", user |-> Nil]
NoResult == [none |-> TRUE]

NoCalls ==
    /\ calls = <<>>
    /\ pc = [p \in Procs |-> "idle"]
    /\ op = [p \in Procs |-> NoCall]
    /\ ret = [p \in Procs |-> NoResult]

LoopIdle ==
    /\ running = TRUE
    /\ loop = "wait"
    /\ update = NoMessage
    /\ net = NoNet
    /\ sent = <<>>
    /\ outbox = <<>>
    /\ logged = <<>>
    /\ pre = [sessions |-> <<>>, heap |-> <<>>]

Init == NewManager /\ LoopIdle /\ NoCalls

Next ==
    \/ Receive
    \/ SkipUpdate
    \/ StartCommand
    \/ ListCommand
    \/ ServersCommand
    \/ UnknownCommand
    \/ TextMessage
    \/ Shutdown

Spec == Init /\ [][Next]_vars

(***************************************************************************)
(* Properties of the update loop (Spec).  They are stated on the state at  *)
(* the end of an iteration (loop = "sent"), where update, net, sent and    *)
(* outbox are those of the iteration and pre is the store it began with.   *)
(***************************************************************************)
Sender == update.From
Replied == loop = "sent" /\ Len(outbox) = 1
ReplyText == outbox[1].Text
SessionBefore == Deref(pre.heap, GetSession(pre.sessions, Sender))
SessionAfter == Deref(heap, GetSession(sessions, Sender))
StoreUntouched == sessions = pre.sessions /\ heap = pre.heap

IsStart == update.hasMessage /\ update.IsCommand /\ update.Command = "start"
IsNewConversation == IsStart /\ Len(Fields(update.Arguments)) = 0
IsResume == IsStart /\ Len(Fields(update.Arguments)) > 0
IsText == update.hasMessage /\ ~update.IsCommand
IsUnknown ==
    update.hasMessage /\ update.IsCommand /\ update.Command \notin {"start", "list", "servers"}

\* The exchange of this iteration, as the network and the backend decided it.
CallMade == Len(sent) = 1
CallSucceeded ==
    CallMade /\ net.transport = "ok" /\ net.status = StatusOK /\ net.body.wellFormed
CallFailed ==
    CallMade /\ (net.transport = "fail" \/ net.status \div 100 # 2 \/ ~net.body.wellFormed)
ReturnedOutput == StringField(net.body.json, "output")
ReturnedID == StringField(net.body.json, "conversation_id")
CarriedID == StringField(sent[1].body, "conversation_id")
CarriesNoID == "conversation_id" \notin DOMAIN sent[1].body

\* C1: after a bare "/start" whose sendMessage succeeds with (O, C), whatever
\* the store held before, the sender's session has conversation identity C,
\* the reply text is O and the request carried no conversation identity.
C1_NewConversationInstallsReturnedID ==
    (loop = "sent" /\ IsNewConversation /\ CallSucceeded) =>
        /\ GetSession(sessions, Sender) # Nil
        /\ SessionAfter.ConversationID = ReturnedID
        /\ Replied /\ ReplyText = ReturnedOutput
        /\ CarriesNoID

C1_Witness ==
    /\ loop = "sent" /\ IsNewConversation /\ CallSucceeded
    /\ SessionBefore # AbsentSession
    /\ ReturnedID # ""
    /\ SessionBefore.ConversationID \notin {"", ReturnedID}
    /\ SessionAfter.ConversationID = ReturnedID

\* C2: a freeform text from a user whose session holds a non-empty identity C,
\* when its exchange succeeds, sent C in the request and leaves C stored,
\* whatever identity the response named.
C2_TextKeepsConversationID ==
    (loop = "sent" /\ IsText /\ CallSucceeded
        /\ SessionBefore # AbsentSession /\ SessionBefore.ConversationID # "") =>
        /\ CarriedID = SessionBefore.ConversationID
        /\ SessionAfter # AbsentSession
        /\ SessionAfter.ConversationID = SessionBefore.ConversationID

C2_Witness ==
    /\ loop = "sent" /\ IsText /\ CallSucceeded
    /\ SessionBefore # AbsentSession /\ SessionBefore.ConversationID # ""
    /\ ReturnedID \notin {"", SessionBefore.ConversationID}
    /\ SessionAfter.ConversationID = SessionBefore.ConversationID

\* C3: a freeform text from a user without a session issues sendMessage with
\* no conversation identity; when it succeeds with identity C the sender's
\* session holds C and the reply is the returned output.
C3_TextWithoutSessionStartsOne ==
    (loop = "sent" /\ IsText /\ SessionBefore = AbsentSession) =>
        /\ CallMade /\ CarriesNoID
        /\ CallSucceeded =>
            /\ GetSession(sessions, Sender) # Nil
            /\ SessionAfter.ConversationID = ReturnedID
            /\ Replied /\ ReplyText = ReturnedOutput

C3_Witness ==
    /\ loop = "sent" /\ IsText /\ SessionBefore = AbsentSession
    /\ CallSucceeded /\ ReturnedID # "" /\ ReturnedOutput # ""
    /\ SessionAfter = UserSession("", ReturnedID)

\* C4: a freeform text whose exchange fails (no response, a status that is
\* not a success status, an undecodable body) is answered with the fixed
\* error text and leaves the whole store as it was.
C4_TextFailureLeavesStore ==
    (loop = "sent" /\ IsText /\ CallFailed) =>
        /\ Replied /\ ReplyText = "Error processing message"
        /\ StoreUntouched

C4_Witness ==
    /\ loop = "sent" /\ IsText /\ CallFailed
    /\ net.transport = "ok" /\ net.status = 500
    /\ SessionBefore # AbsentSession
    /\ SessionAfter = SessionBefore
    /\ ReplyText = "Error processing message"

\* C5: a bare "/start" whose exchange fails is answered with the fixed error
\* text and leaves the sender's session, present or absent, as it was.
C5_StartFailureLeavesSession ==
    (loop = "sent" /\ IsNewConversation /\ CallFailed) =>
        /\ Replied /\ ReplyText = "Error starting new conversation"
        /\ SessionAfter = SessionBefore
        /\ StoreUntouched

C5_Witness ==
    /\ loop = "sent" /\ IsNewConversation /\ CallFailed
    /\ net.transport = "ok" /\ net.status = StatusOK /\ ~net.body.wellFormed
    /\ SessionBefore # AbsentSession /\ SessionBefore.ConversationID # ""
    /\ SessionAfter = SessionBefore

\* C6: "/start X" makes no backend call, replies "Loaded conversation: X" and
\* leaves the sender with a session that is exactly the one for X.
C6_ResumeLoadsArgument ==
    (loop = "sent" /\ IsResume) =>
        /\ Len(sent) = 0 /\ net = NoNet
        /\ Replied /\ ReplyText = "Loaded conversation: " \o Fields(update.Arguments)[1]
        /\ GetSession(sessions, Sender) # Nil
        /\ SessionAfter = UserSession("", Fields(update.Arguments)[1])

C6_Witness ==
    /\ loop = "sent" /\ IsResume
    /\ SessionBefore # AbsentSession
    /\ SessionBefore.ConversationID \notin {"", Fields(update.Arguments)[1]}
    /\ SessionAfter.ConversationID = "xx"
    /\ ReplyText = "Loaded conversation: xx"

\* C7: a command that is none of start, list, servers is answered with
\* "Unknown command", makes no backend call and leaves the store as it was.
C7_UnknownCommandTouchesNothing ==
    (loop = "sent" /\ IsUnknown) =>
        /\ Replied /\ ReplyText = "Unknown command"
        /\ Len(sent) = 0 /\ net = NoNet
        /\ StoreUntouched

C7_Witness ==
    /\ loop = "sent" /\ IsUnknown
    /\ DOMAIN pre.sessions # {}
    /\ ReplyText = "Unknown command"
    /\ StoreUntouched

\* An iteration of the loop ends: the step that leaves the loop body.
IterationEnds == loop = "body" /\ loop' # "body"
\* A handler returns and its reply goes to bot.Send.
HandlerReturns == loop = "body" /\ loop' = "sent"

\* C12 as claimed: every update taken from the channel, of any kind, has
\* exactly one reply handed to bot.Send by the iteration that handles it.
C12_EveryUpdateOneReply ==
    [][IterationEnds => Len(outbox') = 1]_vars

\* C12: every update that carries a message has exactly one reply handed to
\* bot.Send, threaded to that message, whether or not it can be delivered;
\* an update without a message has none.
C12_EveryMessageOneReply ==
    [][IterationEnds =>
        IF update.hasMessage
        THEN /\ Len(outbox') = 1
             /\ outbox'[1].ReplyToMessageID = update.MessageID
             /\ outbox'[1].ChatID = update.Chat
        ELSE outbox' = <<>>]_vars

C12_Witness ==
    /\ loop = "sent" /\ IsText /\ CallSucceeded
    /\ Len(outbox) = 1 /\ ReplyText = ""
    /\ outbox[1].ReplyToMessageID = update.MessageID
    /\ logged = <<"Error sending message">>

IsList == update.hasMessage /\ update.IsCommand /\ update.Command = "list"
IsServers == update.hasMessage /\ update.IsCommand /\ update.Command = "servers"

\* The list in the body of a successful GET /conversations: none when the
\* key is missing or null.
HasList == "conversations" \in DOMAIN net.body.json /\ ~net.body.json.conversations.null
Summaries == IF HasList THEN net.body.json.conversations.items ELSE <<>>

\* C13: "/list" whose call succeeds with no conversation (an empty, a null or
\* a missing list) is answered "No conversations found"; no "/list" is
\* answered with an empty text.
C13_EmptyListingHasItsOwnReply ==
    (loop = "sent" /\ IsList) =>
        /\ Replied /\ ReplyText # ""
        /\ (CallSucceeded /\ Len(Summaries) = 0) => ReplyText = "No conversations found"

C13_Witness ==
    /\ loop = "sent" /\ IsList /\ CallSucceeded
    /\ "conversations" \in DOMAIN net.body.json /\ net.body.json.conversations.null
    /\ ReplyText = "No conversations found"

\* The entry of one summary, and the entries of the first n summaries.
EntryOf(c) ==
    "ID: " \o c.id \o "\nTitle: " \o c.title
    \o "\nCreated: " \o c.created_at.date \o " " \o c.created_at.clock \o "\n\n"

RECURSIVE EntriesOf(_, _)
EntriesOf(cs, n) == IF n = 0 THEN "" ELSE EntriesOf(cs, n - 1) \o EntryOf(cs[n])

C16_OneRequestPerEvent ==
    loop = "sent" =>
        /\ Len(sent) <= 1
        /\ (IsResume \/ IsUnknown) => sent = <<>>
        /\ (IsNewConversation \/ IsText \/ IsList \/ IsServers) => Len(sent) = 1

C16_Witness ==
    /\ loop = "sent" /\ IsText
    /\ net.transport = "fail"
    /\ Len(sent) = 1
    /\ ReplyText = "Error processing message"

\* The fixed reply of each handler to a failed backend call.
ErrorReply ==
    CASE IsStart -> "Error starting new conversation"
      [] IsList -> "Error retrieving conversations"
      [] IsServers -> "Error retrieving server information"
      [] IsText -> "Error processing message"

\* The exchange of this iteration ended in an error of any of the three kinds.
BackendError ==
    Len(sent) > 0 /\ (net.transport # "ok" \/ net.status # StatusOK \/ ~net.body.wellFormed)

\* C17: a backend error of any kind is answered with the handler's fixed
\* reply, which does not depend on the kind of the error, and leaves the
\* loop running; a reply that could not be delivered is logged and leaves
\* the loop running too; at the end of the iteration the event is not
\* handled again and, as long as the process was not shut down, the next
\* update is taken.
C17_ErrorsDoNotStopLoop ==
    /\ []((loop = "sent" /\ BackendError) => (Replied /\ ReplyText = ErrorReply))
    /\ [][HandlerReturns => running' = running]_vars
    /\ []((loop = "sent" /\ running) =>
            /\ ENABLED Receive
            /\ ~ENABLED (StartCommand \/ ListCommand \/ ServersCommand
                            \/ UnknownCommand \/ TextMessage))

C17_Witness ==
    /\ loop = "sent" /\ running
    /\ IsList /\ BackendError /\ net.transport = "ok" /\ net.status = StatusOK
    /\ logged = <<"Error sending message">>
    /\ ReplyText = "Error retrieving conversations"

\* The conversation identity the store holds for the sender of the update.
StoredID ==
    IF Sender \in DOMAIN sessions THEN heap[sessions[Sender]].ConversationID ELSE ""

\* C19: the store changes only when a handler returns, so the store a
\* handler finds is the one the handler of the previous event left; and the
\* handler of a text reads that store: its request carries the conversation
\* identity the store holds for the sender at that moment, whichever earlier
\* event wrote it.
C19_ReadsSeePreviousWrites ==
    /\ [][(sessions' # sessions \/ heap' # heap) => HandlerReturns]_vars
    /\ [][(HandlerReturns /\ IsText) =>
            /\ pre = [sessions |-> sessions, heap |-> heap]
            /\ CarriedID' = StoredID]_vars

\* A text carries an identity that only an earlier "/start xx" can have stored.
C19_Witness ==
    /\ loop = "sent" /\ IsText /\ CallMade
    /\ CarriedID = "xx"
    /\ SessionBefore = UserSession("", "xx")

\* C20: after a bare "/start" or a text whose sendMessage returned success
\* (the reply is not the error reply), the response held a non-empty
\* conversation identity and the session the store holds for the sender has
\* a non-empty conversation identity.
C20_SuccessHasIdentity ==
    (loop = "sent" /\ (IsNewConversation \/ IsText) /\ CallMade /\ ReplyText # ErrorReply) =>
        /\ ReturnedID # ""
        /\ Sender \in DOMAIN sessions => StoredID # ""

\* The sender had no session, or one with an empty conversation identity,
\* when the iteration began.
NoIdentityBefore == SessionBefore = AbsentSession \/ SessionBefore.ConversationID = ""

\* C21: the store holds one session of its own per user it knows; and the
\* handling of a text from a user without a session and from a user whose
\* session has an empty conversation identity is the same: the request has
\* the text and the user id and no conversation identity, the reply is the
\* output returned or the error reply, and the sender is left with the
\* identity returned, or with none after an error.
C21_EmptySessionIsNoSession ==
    /\ DOMAIN sessions \subseteq Users
    /\ \A u, v \in DOMAIN sessions :
        sessions[u] \in DOMAIN heap /\ (sessions[u] = sessions[v] => u = v)
    /\ (loop = "sent" /\ IsText /\ NoIdentityBefore) =>
        /\ Len(sent) = 1
        /\ sent[1].body = [input |-> update.Text, user_id |-> FormatInt(Sender)]
        /\ Replied
        /\ ReplyText = (IF BackendError THEN "Error processing message" ELSE ReturnedOutput)
        /\ StoredID = (IF BackendError THEN "" ELSE ReturnedID)

\* A text from a user whose session has an empty conversation identity.
C21_Witness ==
    /\ loop = "sent" /\ IsText /\ CallSucceeded
    /\ SessionBefore = UserSession("", "")
    /\ CarriesNoID
    /\ StoredID = "c1"

\* The session the store holds for user v, in the store (s, h).
SessionOf(s, h, v) == Deref(h, GetSession(s, v))

\* C23: no step changes the session of a user other than the sender of the
\* update being handled: a handler leaves the session of every other user
\* as it was, whatever the kind of the update and the outcome of the
\* exchange, and nothing but a handler touches the store.
C23_OtherUsersUntouched ==
    [][\A v \in Users :
        (~HandlerReturns \/ v # Sender) =>
            SessionOf(sessions', heap', v) = SessionOf(sessions, heap, v)]_vars

\* User 2 got a new session while user 1 kept the one they had.
C23_Witness ==
    /\ loop = "sent" /\ Sender = 2
    /\ SessionAfter # SessionBefore
    /\ 1 \in DOMAIN sessions
    /\ SessionOf(sessions, heap, 1) = SessionOf(pre.sessions, pre.heap, 1)
    /\ SessionOf(sessions, heap, 1) # SessionAfter

\* C24: "/list" and "/servers" leave the store as they found it, whatever
\* the outcome of the exchange, and their one request is a GET without a
\* body to a fixed path: nothing of any session goes into it.
C24_ListingsLeaveStore ==
    (loop = "sent" /\ (IsList \/ IsServers)) =>
        /\ StoreUntouched
        /\ sent = <<[body |-> <<>>, method |-> "GET",
                     path |-> IF IsList THEN "/conversations" ELSE "/tools"]>>

\* "/servers" fails for a user who has a session.
C24_Witness ==
    /\ loop = "sent" /\ IsServers /\ BackendError
    /\ Sender \in DOMAIN pre.sessions
    /\ SessionAfter = SessionBefore
    /\ ReplyText = "Error retrieving server information"

(***************************************************************************)
(* SpecStore: one caller invokes the methods of the Manager one after the  *)
(* other, each call running to completion.  calls keeps the last two       *)
(* calls, each with the store (by value) it began with; the last one with  *)
(* the pointer it returned.                                                *)
(***************************************************************************)
\* The conversation identities callers pass, and the sessions they build.
StoreIDs == {"", "x"}
CallerSessions(u) == {UserSession(FormatInt(u), "c1")}

Call(name, user, arg, result) ==
    [arg |-> arg, ret |-> result, name |-> name, user |-> user, before |-> Snapshot(sessions, heap)]

\* The caller holds the pointer its last call returned, and no older one.
Dropped(cs) == [i \in DOMAIN cs |-> [cs[i] EXCEPT !.ret = Nil]]
LastTwo(cs) == IF Len(cs) <= 2 THEN cs ELSE SubSeq(cs, Len(cs) - 1, Len(cs))
Held == IF calls = <<>> THEN Nil ELSE calls[Len(calls)].ret

\* The call c returns, leaving the map s and the heap h.
Returns(c, s, h) ==
    /\ \E call \in {c}, map \in {s}, cells \in {h} :
        \E k \in {Compact(map, cells, call.ret)} :
            /\ sessions' = k.sessions
            /\ heap' = k.heap
            /\ calls' = LastTwo(Append(Dropped(calls), [call EXCEPT !.ret = k.held]))
    /\ UNCHANGED <<loopVars, concVars>>

StartCall(u, c) ==
    \E st \in {StartConversation(sessions, heap, u, c)} :
        Returns(Call("start", u, c, Nil), st.sessions, st.heap)

GetCall(u) ==
    Returns(Call("get", u, "", GetSession(sessions, u)), sessions, heap)

ClearCall(u) ==
    Returns(Call("clear", u, "", Nil), ClearSession(sessions, u), heap)

\* UpdateSession with a session the caller has just built.
UpdateFreshCall(u, session) ==
    \E a \in {Alloc(heap)} :
        Returns(Call("update", u, session, Nil), UpdateSession(sessions, u, a), heap @@ (a :> session))

\* UpdateSession with nil or with the pointer the last GetSession returned.
UpdateHeldCall(u, ptr) ==
    Returns(Call("update", u, Deref(heap, ptr), Nil), UpdateSession(sessions, u, ptr), heap)

CallStartConversation == \E u \in Users, c \in StoreIDs : StartCall(u, c)
CallGetSession == \E u \in Users : GetCall(u)
CallClearSession == \E u \in Users : ClearCall(u)
CallUpdateSession ==
    \/ \E u \in Users : \E session \in CallerSessions(u) : UpdateFreshCall(u, session)
    \/ \E u \in Users, ptr \in {Held, Nil} : UpdateHeldCall(u, ptr)

NextStore ==
    \/ CallStartConversation
    \/ CallGetSession
    \/ CallClearSession
    \/ CallUpdateSession

SpecStore == Init /\ [][NextStore]_vars

(***************************************************************************)
(* Properties of the Manager's methods called in sequence (SpecStore).     *)
(***************************************************************************)
TwoCalls(first, second) ==
    /\ Len(calls) = 2
    /\ calls[1].name = first
    /\ calls[2].name = second
    /\ calls[1].user = calls[2].user

\* The map and every session it points to are as they were when c began.
StoreAsBefore(c) ==
    Snapshot(sessions, heap) = c.before

\* C8: GetSession(U) right after StartConversation(U, C) returns a session
\* that is exactly the fresh one for C, whatever U's entry was before.
C8_StartThenGet ==
    TwoCalls("start", "get") =>
        /\ calls[2].ret # Nil
        /\ heap[calls[2].ret] = UserSession("", calls[1].arg)

C8_Witness ==
    /\ TwoCalls("start", "get")
    /\ calls[1].user \in DOMAIN calls[1].before
    /\ calls[1].before[calls[1].user] = UserSession(FormatInt(calls[1].user), "c1")
    /\ calls[1].arg = "x"
    /\ heap[calls[2].ret].ConversationID = "x"

\* C9: GetSession(U) right after ClearSession(U) returns nil; ClearSession
\* can always be called, leaves a store without an entry for U as it is, and
\* a second ClearSession(U) changes nothing the first one left.
C9_ClearThenGetAndIdempotent ==
    /\ TwoCalls("clear", "get") => calls[2].ret = Nil
    /\ \A u \in Users : ENABLED ClearCall(u)
    /\ (calls # <<>> /\ calls[Len(calls)].name = "clear") =>
        /\ calls[Len(calls)].user \notin DOMAIN sessions
        /\ calls[Len(calls)].user \notin DOMAIN calls[Len(calls)].before
              => StoreAsBefore(calls[Len(calls)])
    /\ TwoCalls("clear", "clear") => StoreAsBefore(calls[2])

C9_Witness ==
    /\ TwoCalls("clear", "clear")
    /\ calls[1].user \in DOMAIN calls[1].before
    /\ calls[1].before[calls[1].user] # AbsentSession
    /\ calls[1].user \notin DOMAIN calls[2].before
    /\ StoreAsBefore(calls[2])
    /\ GetSession(sessions, calls[2].user) = Nil

(***************************************************************************)
(* SpecAlias: the caller of SpecStore with what Go lets it do with the     *)
(* *UserSession values of the interface: keep the pointer it passed to     *)
(* UpdateSession, and assign to a field of the session it holds (the one   *)
(* GetSession returned or the one it passed).                              *)
(***************************************************************************)
\* UpdateSession with a session the caller has just built, and keeps.
UpdateKeptCall(u, session) ==
    \E a \in {Alloc(heap)} :
        Returns(Call("update", u, session, a), UpdateSession(sessions, u, a), heap @@ (a :> session))

\* session.ConversationID = c on the session the caller holds; no method of
\* the Manager is called.
AssignHeld(c) ==
    /\ Held # Nil
    /\ Returns(Call("assign", Nil, c, Held), sessions, [heap EXCEPT ![Held].ConversationID = c])

CallUpdateSessionKept == \E u \in Users : \E session \in CallerSessions(u) : UpdateKeptCall(u, session)
CallerAssigns == \E c \in StoreIDs : AssignHeld(c)

NextAlias ==
    \/ NextStore
    \/ CallUpdateSessionKept
    \/ CallerAssigns

SpecAlias == Init /\ [][NextAlias]_vars

\* C11: GetSession and UpdateSession deal in copies: an assignment the caller
\* makes to the session it got from GetSession, or passed to UpdateSession,
\* leaves what GetSession returns for every user as it was; the stored
\* sessions change only in StartConversation, UpdateSession and ClearSession.
C11_CallerHoldsCopies ==
    (calls # <<>> /\ calls[Len(calls)].name = "assign") => StoreAsBefore(calls[Len(calls)])

(***************************************************************************)
(* SpecClient: one caller invokes the methods of the api.Client one after  *)
(* the other.  calls holds the last call with what it returned, net the    *)
(* outcome of its HTTP exchange, sent the HTTP requests it issued.         *)
(***************************************************************************)
\* The requests callers build.
Requests ==
    {ChatRequest(i, c, FormatInt(u), t) :
        i \in Texts \cup {"/start"}, c \in BackendIDs \cup {""}, u \in Users,
        t \in {"", "New Conversation"}}

\* The method name returns r after the exchange nt.
ClientReturns(name, arg, r, nt) ==
    /\ calls' = <<[err |-> r.err, result |-> r.result, arg |-> arg, name |-> name]>>
    /\ net' = nt
    /\ sent' = r.wire
    /\ UNCHANGED <<sessions, heap, running, loop, update, outbox, logged, pre, concVars>>

CallSendMessage ==
    \E req \in Requests, nt \in ChatOutcomes :
        \E r \in {SendMessage(req, nt)} : ClientReturns("SendMessage", req, r, nt)

CallGetConversations ==
    \E nt \in ConversationsOutcomes :
        \E r \in {GetConversations(nt)} : ClientReturns("GetConversations", <<>>, r, nt)

CallGetTools ==
    \E nt \in ToolsOutcomes :
        \E r \in {GetTools(nt)} : ClientReturns("GetTools", <<>>, r, nt)

NextClient ==
    \/ CallSendMessage
    \/ CallGetConversations
    \/ CallGetTools

SpecClient == Init /\ [][NextClient]_vars

(***************************************************************************)
(* Properties of the api.Client's methods (SpecClient).                    *)
(***************************************************************************)
LastCall == calls[1]
\* The response arrived, with status 200 and a body that decodes.
ExchangeComplete == net.transport = "ok" /\ net.status = StatusOK /\ net.body.wellFormed

\* The body's value, member by member, as the result of the call must have it.
WholeResult ==
    CASE LastCall.name = "SendMessage" ->
            [ConversationID |-> IF "conversation_id" \in DOMAIN net.body.json
                                THEN net.body.json.conversation_id ELSE "",
             Output |-> IF "output" \in DOMAIN net.body.json THEN net.body.json.output ELSE ""]
      [] LastCall.name = "GetConversations" -> Summaries
      [] LastCall.name = "GetTools" -> net.body.json

\* C15: SendMessage, GetConversations and GetTools return either no error and
\* the whole decoded body of a complete exchange, or an error and the nil
\* result: never an error with a result, never no error with a body that was
\* not decoded to its end.
C15_ResultOrError ==
    calls # <<>> =>
        IF LastCall.err = NoErr
        THEN ExchangeComplete /\ LastCall.result = WholeResult
        ELSE ~ExchangeComplete /\ LastCall.result = NilResult

C15_Witness ==
    /\ calls # <<>> /\ LastCall.name = "GetConversations"
    /\ net.transport = "ok" /\ net.status = StatusOK /\ ~net.body.wellFormed
    /\ LastCall.err = "error decoding response"
    /\ LastCall.result = NilResult

\* C22: a call whose response has a status that is not a success status
\* (2xx) returns the status error and no result; a call whose response has
\* a success status and a body that decodes returns the decoded body.
C22_SuccessStatusDecodes ==
    (calls # <<>> /\ net.transport = "ok") =>
        /\ net.status \div 100 # 2 =>
            (LastCall.err = "unexpected status code" /\ LastCall.result = NilResult)
        /\ (net.status \div 100 = 2 /\ net.body.wellFormed) =>
            (LastCall.err = NoErr /\ LastCall.result = WholeResult)

(***************************************************************************)
(* SpecTasks: the handlers of several updates run concurrently, one task   *)
(* per update, over one Manager.  Every method of the Manager is one step  *)
(* (its lock makes it atomic), and so is the HTTP exchange.  op is the     *)
(* message each task handles, ret what it has in hand: the conversation    *)
(* identity it read and the response it received.  The tasks handle the    *)
(* messages whose handlers use the store: "/start" and texts.              *)
(***************************************************************************)
TaskUpdates == {upd \in Updates : upd.hasMessage /\ (upd.IsCommand => upd.Command = "start")}

InHand(conversationID, resp) == [conversationID |-> conversationID, resp |-> resp]

\* What task p leaves alone besides the store.
TaskKeeps == UNCHANGED <<loopVars, calls, mu, writing>>

\* The handler of task p returns.
TaskReturns(p) ==
    /\ pc' = [pc EXCEPT ![p] = "idle"]
    /\ op' = [op EXCEPT ![p] = NoCall]
    /\ ret' = [ret EXCEPT ![p] = NoResult]

\* The store after a method left it as (s, h).
StoreBecomes(s, h) ==
    \E k \in {Compact(s, h, Nil)} : sessions' = k.sessions /\ heap' = k.heap

\* A task is started for the next update.
Dispatch(p) ==
    /\ pc[p] = "idle"
    /\ \E upd \in TaskUpdates : op' = [op EXCEPT ![p] = upd]
    /\ pc' = [pc EXCEPT ![p] = "handle"]
    /\ UNCHANGED <<sessions, heap, ret>>
    /\ TaskKeeps

\* HandleStart with an argument: UpdateSession, return.
TaskLoad(p) ==
    /\ pc[p] = "handle" /\ op[p].IsCommand /\ Len(Fields(op[p].Arguments)) > 0
    /\ \E r \in {HandleStart(sessions, heap, op[p], NoNet)} : StoreBecomes(r.sessions, r.heap)
    /\ TaskReturns(p)
    /\ TaskKeeps

\* HandleStart without an argument: SendMessage; return on its error.
TaskSendStart(p) ==
    /\ pc[p] = "handle" /\ op[p].IsCommand /\ Len(Fields(op[p].Arguments)) = 0
    /\ \E nt \in ChatOutcomes :
        \E r \in {SendMessage(StartRequest(op[p]), nt)} :
            IF r.err # NoErr
            THEN TaskReturns(p)
            ELSE /\ pc' = [pc EXCEPT ![p] = "start"]
                 /\ ret' = [ret EXCEPT ![p] = InHand("", r.result)]
                 /\ UNCHANGED op
    /\ UNCHANGED <<sessions, heap>>
    /\ TaskKeeps

\* HandleMessage: session := GetSession(userID) and the read of its
\* ConversationID, which no handler assigns to after the session is stored.
TaskGet(p) ==
    /\ pc[p] = "handle" /\ ~op[p].IsCommand
    /\ ret' = [ret EXCEPT ![p] =
                InHand(SessionConversationID(heap, GetSession(sessions, op[p].From)), NilResult)]
    /\ pc' = [pc EXCEPT ![p] = "send"]
    /\ UNCHANGED <<sessions, heap, op>>
    /\ TaskKeeps

\* HandleMessage: SendMessage; return on its error and when the request
\* carried a conversation identity.
TaskSendText(p) ==
    /\ pc[p] = "send"
    /\ \E nt \in ChatOutcomes :
        \E r \in {SendMessage(ChatRequest(op[p].Text, ret[p].conversationID,
                                          FormatInt(op[p].From), ""), nt)} :
            IF r.err = NoErr /\ StartsSession(ret[p].conversationID)
            THEN /\ pc' = [pc EXCEPT ![p] = "start"]
                 /\ ret' = [ret EXCEPT ![p] = InHand(ret[p].conversationID, r.result)]
                 /\ UNCHANGED op
            ELSE TaskReturns(p)
    /\ UNCHANGED <<sessions, heap>>
    /\ TaskKeeps

\* HandleStart, HandleMessage: StartConversation(userID, resp.ConversationID), return.
TaskStart(p) ==
    /\ pc[p] = "start"
    /\ \E st \in {StartConversation(sessions, heap, op[p].From, ret[p].resp.ConversationID)} :
        StoreBecomes(st.sessions, st.heap)
    /\ TaskReturns(p)
    /\ TaskKeeps

NextTasks ==
    \E p \in Procs :
        \/ Dispatch(p)
        \/ TaskLoad(p)
        \/ TaskSendStart(p)
        \/ TaskGet(p)
        \/ TaskSendText(p)
        \/ TaskStart(p)

SpecTasks == Init /\ [][NextTasks]_vars

(***************************************************************************)
(* Properties of concurrent handlers (SpecTasks).                          *)
(***************************************************************************)
\* The conversation identity the store holds for user u.
IdentityOf(u) == IF u \in DOMAIN sessions THEN heap[sessions[u]].ConversationID ELSE ""

\* Task p, handling a text whose exchange succeeded, writes the store.
TextTaskWrites(p) == pc[p] = "start" /\ pc'[p] # "start" /\ ~op[p].IsCommand

\* C18: with the handlers of several updates running concurrently over one
\* store, the handler of a text whose exchange succeeded never replaces a
\* non-empty conversation identity: when it writes, the store holds no
\* identity for its sender.
C18_ConcurrentTextKeepsIdentity ==
    [][\A p \in Procs : TextTaskWrites(p) => IdentityOf(op[p].From) = ""]_vars

(***************************************************************************)
(* SpecConc: goroutines call the methods of one Manager concurrently.      *)
(* Every lock, map access and unlock is a step.                            *)
(*                                                                         *)
(* sync.RWMutex: mu.w is the writer that has called Lock (it holds the     *)
(* lock once the readers have left), mu.readers the goroutines holding the *)
(* read lock.  RLock blocks while a writer holds or awaits the lock.       *)
(*                                                                         *)
(* A map write takes two steps; a map read that falls between them is a    *)
(* data race, and yields the entry, a torn value, or the runtime's fatal   *)
(* "concurrent map read and map write".                                    *)
(***************************************************************************)
Torn == [torn |-> TRUE]
Fatal == [fatal |-> TRUE]

\* The goroutines contend for the entries of two users.
ConcUsers == {u \in Users : u <= 2}

ConcCalls ==
    {[session |-> NewSession("x"), name |-> "start", user |-> u] : u \in ConcUsers}
    \cup {[session |-> UserSession(FormatInt(u), "c1"), name |-> "update", user |-> u] : u \in ConcUsers}
    \cup {[session |-> AbsentSession, name |-> "clear", user |-> u] : u \in ConcUsers}
    \cup {[session |-> AbsentSession, name |-> "get", user |-> u] : u \in ConcUsers}

\* GetSession takes the read lock, the other three methods the write lock.
TakesWriteLock(c) == c.name \in {"start", "update", "clear"}

\* Variant: GetSession does not wait for writers.
CanRLock_Always(m) == TRUE

\* m.mu.RLock() can return
CanRLock(m) == m.w = Nil

\* m.mu.Lock(): the caller becomes the writer when there is none ...
CanAnnounce(m) == m.w = Nil

\* ... and m.mu.Lock() returns when the readers have left.
CanLock(m) == m.readers = {}

\* A goroutine calls a method.
Invoke(p) ==
    /\ pc[p] = "idle"
    /\ \E c \in ConcCalls : op' = [op EXCEPT ![p] = c]
    /\ pc' = [pc EXCEPT ![p] = "lock"]
    /\ UNCHANGED <<sessions, heap, ret, mu, writing, loopVars, calls>>

LockAnnounce(p) ==
    /\ pc[p] = "lock"
    /\ TakesWriteLock(op[p])
    /\ CanAnnounce(mu)
    /\ mu' = [mu EXCEPT !.w = p]
    /\ pc' = [pc EXCEPT ![p] = "wait"]
    /\ UNCHANGED <<sessions, heap, op, ret, writing, loopVars, calls>>

LockAcquire(p) ==
    /\ pc[p] = "wait"
    /\ CanLock(mu)
    /\ pc' = [pc EXCEPT ![p] = "cs"]
    /\ UNCHANGED <<sessions, heap, op, ret, mu, writing, loopVars, calls>>

\* The map write of StartConversation, UpdateSession or ClearSession begins.
WriteBegin(p) ==
    /\ pc[p] = "cs"
    /\ writing' = writing \cup {p}
    /\ pc' = [pc EXCEPT ![p] = "writing"]
    /\ UNCHANGED <<sessions, heap, op, ret, mu, loopVars, calls>>

\* The map after the write of call c.
Written(s, h, c) ==
    IF c.name = "clear"
    THEN [sessions |-> ClearSession(s, c.user), heap |-> h]
    ELSE [sessions |-> UpdateSession(s, c.user, Alloc(h)), heap |-> h @@ (Alloc(h) :> c.session)]

WriteEnd(p) ==
    /\ pc[p] = "writing"
    /\ \E st \in {Written(sessions, heap, op[p])} :
        \E k \in {Compact(st.sessions, st.heap, Nil)} : sessions' = k.sessions /\ heap' = k.heap
    /\ writing' = writing \ {p}
    /\ pc' = [pc EXCEPT ![p] = "unlock"]
    /\ UNCHANGED <<op, ret, mu, loopVars, calls>>

\* Variant: the method returns without releasing the lock.
Unlock_Forgotten(p) ==
    /\ pc[p] = "unlock"
    /\ pc' = [pc EXCEPT ![p] = "idle"]
    /\ op' = [op EXCEPT ![p] = NoCall]
    /\ UNCHANGED <<sessions, heap, ret, mu, writing, loopVars, calls>>

\* defer m.mu.Unlock()
Unlock(p) ==
    /\ pc[p] = "unlock"
    /\ mu' = [mu EXCEPT !.w = Nil]
    /\ pc' = [pc EXCEPT ![p] = "idle"]
    /\ op' = [op EXCEPT ![p] = NoCall]
    /\ UNCHANGED <<sessions, heap, ret, writing, loopVars, calls>>

RLock(p) ==
    /\ pc[p] = "lock"
    /\ ~TakesWriteLock(op[p])
    /\ CanRLock(mu)
    /\ mu' = [mu EXCEPT !.readers = @ \cup {p}]
    /\ pc' = [pc EXCEPT ![p] = "rcs"]
    /\ UNCHANGED <<sessions, heap, op, ret, writing, loopVars, calls>>

\* return m.sessions[telegramUserID]; ret keeps the session by value.
Read(p) ==
    /\ pc[p] = "rcs"
    /\ \E v \in {Deref(heap, GetSession(sessions, op[p].user))}
                \cup (IF writing = {} THEN {} ELSE {Torn, Fatal}) :
        ret' = [ret EXCEPT ![p] = v]
    /\ pc' = [pc EXCEPT ![p] = "runlock"]
    /\ UNCHANGED <<sessions, heap, op, mu, writing, loopVars, calls>>

\* defer m.mu.RUnlock(); the caller takes the result.
RUnlock(p) ==
    /\ pc[p] = "runlock"
    /\ mu' = [mu EXCEPT !.readers = @ \ {p}]
    /\ pc' = [pc EXCEPT ![p] = "idle"]
    /\ op' = [op EXCEPT ![p] = NoCall]
    /\ ret' = [ret EXCEPT ![p] = NoResult]
    /\ UNCHANGED <<sessions, heap, writing, loopVars, calls>>

NextConc ==
    \E p \in Procs :
        \/ Invoke(p)
        \/ LockAnnounce(p)
        \/ LockAcquire(p)
        \/ WriteBegin(p)
        \/ WriteEnd(p)
        \/ Unlock(p)
        \/ RLock(p)
        \/ Read(p)
        \/ RUnlock(p)

SpecConc == Init /\ [][NextConc]_vars

\* The scheduler runs every goroutine that can take a step, and the lock is
\* fair: a goroutine that finds the lock free again and again gets it.
\* Nothing obliges a goroutine to call a method.
InsideStep(p) ==
    LockAcquire(p) \/ WriteBegin(p) \/ WriteEnd(p) \/ Unlock(p) \/ Read(p) \/ RUnlock(p)

FairConc ==
    \A p \in Procs :
        /\ WF_vars(InsideStep(p))
        /\ SF_vars(LockAnnounce(p) \/ RLock(p))

SpecConcFair == SpecConc /\ FairConc

(***************************************************************************)
(* Properties of the Manager under concurrent calls (SpecConc).            *)
(***************************************************************************)
WriterInside(p) == pc[p] \in {"cs", "writing", "unlock"}
ReaderInside(p) == pc[p] \in {"rcs", "runlock"}

\* C10: a goroutine inside the critical section of StartConversation,
\* UpdateSession or ClearSession is alone inside any critical section, and no
\* GetSession returns a torn session (or dies on a racing map access).
C10_WritersExcludeAll ==
    /\ \A p \in Procs : WriterInside(p) =>
            \A q \in Procs \ {p} : ~WriterInside(q) /\ ~ReaderInside(q)
    /\ \A p \in Procs : ret[p] \notin {Torn, Fatal}

\* Two readers inside together, one of them holding a session a writer stored.
C10_Witness ==
    \E p \in Procs, q \in Procs :
        /\ p # q
        /\ pc[p] = "runlock" /\ ReaderInside(q)
        /\ ret[p] = NewSession("x")

\* What goroutine p holds of the lock.
HoldsWrite(p) == mu.w = p
HoldsRead(p) == p \in mu.readers
InCall(p) == pc[p] # "idle"

\* C25: a goroutine that is in no call, or is about to lock, holds nothing
\* of the lock, so a method locks once and never while it holds the lock,
\* and has released the lock when it returns; it holds the write lock or
\* the read lock exactly between its lock and its unlock; as long as some
\* goroutine is in a call, some goroutine in a call can take a step; and
\* with a fair lock every call that was started returns.
C25_EveryCallReturns ==
    /\ [](\A p \in Procs :
            /\ pc[p] \in {"idle", "lock"} => (~HoldsWrite(p) /\ ~HoldsRead(p))
            /\ HoldsWrite(p) <=> pc[p] \in {"wait", "cs", "writing", "unlock"}
            /\ HoldsRead(p) <=> pc[p] \in {"rcs", "runlock"})
    /\ []((\E p \in Procs : InCall(p)) =>
            \E p \in Procs :
                ENABLED (InsideStep(p) \/ LockAnnounce(p) \/ RLock(p)))
    /\ \A p \in Procs : InCall(p) ~> ~InCall(p)

\* A writer waits for a reader to leave while the other goroutines wait
\* for the writer.
C25_Witness ==
    \E p \in Procs, q \in Procs :
        /\ pc[p] = "wait" /\ HoldsWrite(p)
        /\ pc[q] = "runlock" /\ HoldsRead(q)
        /\ ~ENABLED LockAcquire(p)

====
